---- MODULE Spec2Model ----
(***************************************************************************)
(* Model of src/game.js: the offline runner game (player, obstacles,       *)
(* sparks, score/best, the input handlers and the requestAnimationFrame    *)
(* loop).                                                                  *)
(*                                                                         *)
(* Numbers are exact rationals of the source kept as scaled integers:      *)
(*   time (dt, last, now)      milliseconds                                *)
(*   lengths (x, y, w, h)      1/500000 px   (PX units per pixel)          *)
(*   player.vy                 1/5 px/s                                    *)
(*   score                     1/50 point    (Floor(score) = score \div 50)*)
(*   speed, spark spd          1/500 px/s                                  *)
(*   spawnTimer                1/450 ms                                    *)
(*   spark r                   1/10000 px                                  *)
(* With these units every product of the source (g*dt, vy*dt, speed*dt,    *)
(* score*0.9, (520-speed)/900, dt*60) is an integer, so the arithmetic of  *)
(* update() is exact.  Floating-point rounding is not modelled.            *)
(***************************************************************************)
EXTENDS Integers, Sequences, FiniteSets, TLC

VARIABLES
    obstacles,            \* let obstacles (game.js:101)
    sparks,               \* let sparks (game.js:103)
    running,              \* let running (game.js:105)
    started,              \* let started (game.js:106)
    score,                \* let score (game.js:107)
    best,                 \* let best (game.js:108)
    speed,                \* let speed (game.js:109)
    spawnTimer,           \* let spawnTimer (game.js:110)
    last,                 \* let last (game.js:111)
    player,               \* const player (game.js:74), fields y, vy, onGround, w, h
    lastCssH,             \* let lastCssH (game.js:41)
    clientWidth,          \* canvas.clientWidth, the viewport width read by world.w()
    font,                 \* what ctx.measureText reports for this page's emoji font
    prefersReducedMotion, \* const prefersReducedMotion (game.js:60)
    stored,               \* localStorage item 'sd_runner_best'
    frames,               \* number of requestAnimationFrame callbacks run so far
    ev,                   \* the handler that ran last and the phase it ran in
    jumpedIn,             \* the phase in which player.jump() took effect since the
                          \* last frame, "none" if it did not
    rectA, rectB,         \* arguments of the last direct call of rectsOverlap
    rectHit               \* its result

vars == <<obstacles, sparks, running, started, score, best, speed, spawnTimer,
          last, player, lastCssH, clientWidth, font, prefersReducedMotion,
          stored, frames, ev, jumpedIn, rectA, rectB, rectHit>>

----------------------------------------------------------------------------
(* Bounds of the model *)

\* frames the loop is run for
MaxFrames == 2

\* latest performance.now() (ms) at which a visibilitychange is delivered
MaxNow == 40

\* frame-to-frame timestamp differences (ms) the browser hands to loop():
\* a timestamp before the stored reference, an ordinary frame, a 5 s stall
FrameDeltas == {-5, 16, 5000}

\* performance.now() - last when visibilitychange fires (ms)
VisibilityDeltas == {40}

\* viewport widths (canvas.clientWidth, CSS px)
Widths == {64, 96}

\* what measureText reports, in percent of the font size; asc = -1 stands for
\* a non-finite actualBoundingBoxAscent/Descent, w = 0 for a zero width
Fonts == { [w |-> 0,  asc |-> -1, desc |-> -1],
           [w |-> 50, asc |-> 40, desc |-> 10] }

\* localStorage contents at startup: finite numbers or a non-numeric string
StoredItems == { [finite |-> TRUE, v |-> 2], [finite |-> FALSE, v |-> 0] }

\* the Math.random() draws of one spawn: count, base, gap and the rounded
\* jitter per glyph of spawnObstacle(), and pace = Math.random() *
\* (maxGap - minGap) of the spawn pacing, in ms
Draws == { [count |-> 1, base |-> 20, gap |-> 2, jit |-> <<-5, 0, 0>>, pace |-> 0],
           [count |-> 3, base |-> 33, gap |-> 4, jit |-> <<5, 5, 5>>, pace |-> 599] }

\* seeds of the Math.random() stream used by addSpark
Seeds == {0, 1}

\* keys delivered to the keydown handler
Keys == {" ", "ArrowUp", "w", "W", "r", "R", "Escape"}

----------------------------------------------------------------------------
(* Units and arithmetic helpers *)

PX == 500 * 1000

Min(a, b) == IF a < b THEN a ELSE b
Max(a, b) == IF a > b THEN a ELSE b

\* Math.floor of a score kept in 1/50 point
Floor(s) == s \div 50

\* Math.round(cssW * (200 / 640)) for cssW >= 0
RoundCssH(cssW) == (cssW * 400 + 640) \div 1280

----------------------------------------------------------------------------
(* Program constants *)

\* player.x (px)
PlayerX == 46

\* groundPad (px)
groundPad == 22

\* player.fontPx
PlayerFontPx == 30

\* base world speed (px/s) and its cap
BaseSpeed == 260
MaxSpeed == 520

\* g of update() (px/s^2)
Gravity == 1200

\* magnitude of the jump impulse (px/s)
JumpImpulse == 460

\* count passed to addSpark on a collision
BurstCount == 14

\* upper clamp of dt in loop(), ms (0.033 s)
MaxDt == 33

----------------------------------------------------------------------------
(* Glyph metrics and viewport *)

\* measureEmoji(emoji, fontPx): w and h in length units.  The three player
\* faces and the cactus are measured with the same font f.
measureEmoji(f, fontPx) ==
    LET ascent  == IF f.asc >= 0 THEN (fontPx * PX * f.asc) \div 100
                   ELSE (fontPx * PX * 78) \div 100
        descent == IF f.desc >= 0 THEN (fontPx * PX * f.desc) \div 100
                   ELSE (fontPx * PX * 22) \div 100
        width   == IF f.w # 0 THEN (fontPx * PX * f.w) \div 100 ELSE fontPx * PX
    IN  [w |-> Max(1 * PX, width), h |-> Max(1 * PX, ascent + descent),
         ascent |-> ascent, descent |-> descent]

\* fitCanvas(): the new lastCssH for a canvas of client width cw
fitCanvas(cw) == RoundCssH(cw)

\* world.w() in px
worldW(cw) == IF cw # 0 THEN cw ELSE 640

\* world.h() in px: the canvas rect height is the style height fitCanvas set
worldH(cssH) == IF cssH > 0 THEN cssH ELSE 200

\* groundY() in length units
groundY(cssH) == (worldH(cssH) - groundPad) * PX

----------------------------------------------------------------------------
(* Game state as one record, so that the functions of game.js are operators *)

Game == [obstacles |-> obstacles, sparks |-> sparks, running |-> running,
         started |-> started, score |-> score, best |-> best, speed |-> speed,
         spawnTimer |-> spawnTimer, player |-> player, stored |-> stored]

SetGame(g) ==
    /\ obstacles' = g.obstacles
    /\ sparks' = g.sparks
    /\ running' = g.running
    /\ started' = g.started
    /\ score' = g.score
    /\ best' = g.best
    /\ speed' = g.speed
    /\ spawnTimer' = g.spawnTimer
    /\ player' = g.player
    /\ stored' = g.stored

\* the player object literal (game.js:74-90)
PlayerLiteral == [y |-> 0, vy |-> 0, onGround |-> FALSE, w |-> 22 * PX, h |-> 28 * PX]

\* best after the startup read of localStorage; throws: getItem raised
LoadBest(item, throws) ==
    IF throws THEN 0 ELSE IF item.finite THEN item.v ELSE 0

\* reset()
reset(g, f, cssH) ==
    LET m  == measureEmoji(f, PlayerFontPx)
        pw == Max(18 * PX, (m.w * 92) \div 100)
        ph == Max(22 * PX, (m.h * 92) \div 100)
    IN  [g EXCEPT !.obstacles = <<>>,
                  !.sparks = <<>>,
                  !.running = TRUE,
                  !.started = FALSE,
                  !.score = 0,
                  !.speed = BaseSpeed * 500,
                  !.spawnTimer = 0,
                  !.player = [y |-> groundY(cssH) - ph, vy |-> 0, onGround |-> TRUE,
                              w |-> pw, h |-> ph]]

\* no rectangle: rectsOverlap has not been called directly
NoRect == [x |-> 0, y |-> 0, w |-> 0, h |-> 0]

\* rectsOverlap with the comparisons made non-strict
rectsOverlapClosed(a, b) ==
    a.x <= b.x + b.w /\ a.x + a.w >= b.x /\ a.y <= b.y + b.h /\ a.y + a.h >= b.y

\* rectsOverlap(a, b)
rectsOverlap(a, b) ==
    /\ a.x < b.x + b.w
    /\ a.x + a.w > b.x
    /\ a.y < b.y + b.h
    /\ a.y + a.h > b.y

\* player.jump() without the onGround test
jumpInAir(p) == [p EXCEPT !.vy = -(JumpImpulse * 5), !.onGround = FALSE]

\* player.jump()
jump(p) ==
    IF ~p.onGround THEN p
    ELSE [p EXCEPT !.vy = -(JumpImpulse * 5), !.onGround = FALSE]

\* the k-th Math.random() of a burst, in 1/1000, for a stream started at seed
Rand(seed, k) == (seed * 617 + k * 379) % 1000

\* addSpark(x, y, count) without the reduced-motion return
addSparkAlways(sp, x, y, count, seed, reduced) ==
    sp \o [i \in 1..Max(6, Min(16, count)) |->
             [x |-> x, y |-> y,
              r |-> 15000 + 22 * Rand(seed, 2 * i - 2),
              spd |-> 120 * 500 + 100 * Rand(seed, 2 * i - 1)]]

\* addSpark(x, y, count)
addSpark(sp, x, y, count, seed, reduced) ==
    IF reduced THEN sp
    ELSE LET c == Max(6, Min(16, count))
         IN  sp \o [i \in 1..c |->
                      [x |-> x, y |-> y,
                       r |-> 15000 + 22 * Rand(seed, 2 * i - 2),
                       spd |-> 120 * 500 + 100 * Rand(seed, 2 * i - 1)]]

\* the glyph loop of spawnObstacle(), glyphs i..count laid out from offset dx
RECURSIVE Glyphs(_, _, _, _)
Glyphs(c, f, i, dx) ==
    IF i > c.count THEN <<>>
    ELSE LET size == Max(18, c.base + c.jit[i])
             m    == measureEmoji(f, size)
             gw   == Max(10 * PX, m.w)
             gh   == Max(14 * PX, m.h)
         IN  <<[emoji |-> "cactus", size |-> size, dx |-> dx, w |-> gw, h |-> gh]>>
             \o Glyphs(c, f, i + 1, dx + gw + c.gap * PX)

\* maxH of the glyph loop
RECURSIVE MaxGlyphH(_)
MaxGlyphH(gl) == IF gl = <<>> THEN 0 ELSE Max(gl[1].h, MaxGlyphH(Tail(gl)))

\* spawnObstacle(): the obstacle pushed, for the draws c
spawnObstacle(c, f, cw, cssH) ==
    LET gl   == Glyphs(c, f, 1, 0)
        lastG == gl[Len(gl)]
        dx   == lastG.dx + lastG.w + c.gap * PX
        w    == Max(14 * PX, dx - c.gap * PX)
        h    == Max(16 * PX, MaxGlyphH(gl))
    IN  [x |-> (worldW(cw) + 10) * PX, y |-> groundY(cssH) - h, w |-> w, h |-> h,
         glyphs |-> gl]

----------------------------------------------------------------------------
(* update(dt) *)

\* speedFor without the cap
speedForUncapped(sc) == BaseSpeed * 500 + 9 * sc

\* the difficulty curve: speed for a score
speedFor(sc) == Min(MaxSpeed * 500, BaseSpeed * 500 + 9 * sc)

\* the ground clamp landing the player without stopping it
stepPlayerKeepsVy(p, dt, gy) ==
    LET vy1 == p.vy + (Gravity * dt) \div 200
        y1  == p.y + vy1 * dt * 100
    IN  IF y1 + p.h >= gy
        THEN [p EXCEPT !.y = gy - p.h, !.vy = vy1, !.onGround = TRUE]
        ELSE [p EXCEPT !.y = y1, !.vy = vy1]

\* gravity and the ground clamp
stepPlayer(p, dt, gy) ==
    LET vy1 == p.vy + (Gravity * dt) \div 200
        y1  == p.y + vy1 * dt * 100
    IN  IF y1 + p.h >= gy
        THEN [p EXCEPT !.y = gy - p.h, !.vy = 0, !.onGround = TRUE]
        ELSE [p EXCEPT !.y = y1, !.vy = vy1]

\* the spawn test with < in place of <=
spawnDueStrict(t) == t < 0

\* whether the spawn pacing spawns, for the timer after spawnTimer -= dt
spawnDue(t) == t <= 0

\* the spawn timer drawn after a spawn: minGap + random*(maxGap-minGap) + bonus
nextSpawnTimer(pace, spd) == 450 * (750 + pace) + Max(0, MaxSpeed * 500 - spd)

\* the obstacles moved but never removed
moveObstaclesKeepAll(obs, spd, dt) ==
    [i \in 1..Len(obs) |-> [obs[i] EXCEPT !.x = @ - spd * dt]]

\* "Move obstacles": every obstacle moved by speed*dt, then the filter
moveObstacles(obs, spd, dt) ==
    LET moved == [i \in 1..Len(obs) |-> [obs[i] EXCEPT !.x = @ - spd * dt]]
        keep(o) == o.x + o.w > -30 * PX
    IN  SelectSeq(moved, keep)

\* Math.sin(x * 0.02) * 10 in 1/157, by a triangle wave of period 314 px
sin10(x) ==
    LET ph == ((2 * x) \div PX) % 628
    IN  IF ph <= 157 THEN 10 * ph
        ELSE IF ph <= 471 THEN 10 * (314 - ph)
        ELSE 10 * (ph - 628)

\* "Sparks drift": every spark moved and shrunk, then the filter
driftSparks(sp, spd, dt) ==
    LET drift(s) ==
            LET x1 == s.x - (spd + s.spd) * dt
            IN  [s EXCEPT !.x = x1,
                          !.y = @ + (sin10(x1) * dt * 500) \div 157 + 8 * dt * 500,
                          !.r = (@ * (10000 - 18 * dt)) \div 10000]
        moved == [i \in 1..Len(sp) |-> drift(sp[i])]
        keep(s) == s.r > 2500
    IN  SelectSeq(moved, keep)

\* a score counted per frame instead of per elapsed time
addScorePerFrame(sc, dt) == sc + 50

\* "Score": score += dt * 60
addScore(sc, dt) == sc + 3 * dt

\* whether the collision loop finds an obstacle overlapping the player
collides(p, obs) ==
    LET box == [x |-> PlayerX * PX, y |-> p.y, w |-> p.w, h |-> p.h]
    IN  \E i \in 1..Len(obs) : rectsOverlap(box, obs[i])

\* the collision branch storing the score as best without comparing
loseOverwrites(g, seed, reduced, writeFails) ==
    LET p == g.player
    IN  [g EXCEPT !.running = FALSE,
                  !.sparks = addSpark(@, PlayerX * PX + p.w, p.y + p.h - 6 * PX,
                                      BurstCount, seed, reduced),
                  !.best = Floor(g.score),
                  !.stored = IF writeFails THEN @
                             ELSE [finite |-> TRUE, v |-> Floor(g.score)]]

\* the collision branch keeping the record only when the write succeeded
loseNeedsWrite(g, seed, reduced, writeFails) ==
    LET p   == g.player
        rec == Floor(g.score) > g.best
    IN  [g EXCEPT !.running = FALSE,
                  !.sparks = addSpark(@, PlayerX * PX + p.w, p.y + p.h - 6 * PX,
                                      BurstCount, seed, reduced),
                  !.best = IF rec /\ ~writeFails THEN Floor(g.score) ELSE @,
                  !.stored = IF rec /\ ~writeFails
                             THEN [finite |-> TRUE, v |-> Floor(g.score)] ELSE @]

\* the body of the collision branch: the loss
lose(g, seed, reduced, writeFails) ==
    LET p   == g.player
        sp  == addSpark(g.sparks, PlayerX * PX + p.w, p.y + p.h - 6 * PX,
                        BurstCount, seed, reduced)
        rec == Floor(g.score) > g.best
    IN  [g EXCEPT !.running = FALSE,
                  !.sparks = sp,
                  !.best = IF rec THEN Floor(g.score) ELSE @,
                  !.stored = IF rec /\ ~writeFails
                             THEN [finite |-> TRUE, v |-> Floor(g.score)] ELSE @]

\* update(dt) past its "Not started" return; in: the draws and environment
\* answers of this call. Returns the new game state, the number of
\* spawnObstacle() calls and whether the collision branch ran.
simulate(g, dt, f, cw, cssH, in) ==
    LET gy    == groundY(cssH)
        spd   == speedFor(g.score)
        p1    == stepPlayer(g.player, dt, gy)
        t1    == g.spawnTimer - 450 * dt
        due   == spawnDue(t1)
        obs1  == IF due THEN Append(g.obstacles, spawnObstacle(in.draw, f, cw, cssH))
                 ELSE g.obstacles
        t2    == IF due THEN nextSpawnTimer(in.draw.pace, spd) ELSE t1
        obs2  == moveObstacles(obs1, spd, dt)
        sp1   == driftSparks(g.sparks, spd, dt)
        sc1   == addScore(g.score, dt)
        g1    == [g EXCEPT !.speed = spd, !.player = p1, !.spawnTimer = t2,
                           !.obstacles = obs2, !.sparks = sp1, !.score = sc1]
        hit   == collides(p1, obs2)
    IN  [g |-> IF hit THEN lose(g1, in.seed, prefersReducedMotion, in.writeFails)
               ELSE g1,
         spawned |-> IF due THEN 1 ELSE 0, hit |-> hit]

\* update(dt) simulating also before the session has started
updateUngated(g, dt, f, cw, cssH, in) == simulate(g, dt, f, cw, cssH, in)

\* update(dt)
update(g, dt, f, cw, cssH, in) ==
    IF ~g.started
    THEN [g |-> [g EXCEPT !.player.onGround = TRUE,
                          !.player.y = groundY(cssH) - g.player.h],
          spawned |-> 0, hit |-> FALSE]
    ELSE simulate(g, dt, f, cw, cssH, in)

----------------------------------------------------------------------------
(* Handlers *)

\* the three states of the input router
Phase == IF ~started THEN "NOT_STARTED"
         ELSE IF running THEN "RUNNING" ELSE "GAME_OVER"

\* the record kept of the handler that ran last
Event(op) == [op |-> op, phase |-> Phase]

\* start()
start(g) == IF ~g.started THEN [g EXCEPT !.started = TRUE] ELSE g

\* restart() without started = true
restartNotStarted(g, f, cssH) == reset(g, f, cssH)

\* restart()
restart(g, f, cssH) == [reset(g, f, cssH) EXCEPT !.started = TRUE]

\* onJumpIntent() without the running test
onJumpIntentAnyTime(g) == [start(g) EXCEPT !.player = jump(@)]

\* onJumpIntent() that only starts the game on the first input
onJumpIntentStartFirst(g) ==
    IF ~g.started THEN start(g)
    ELSE IF ~g.running THEN g ELSE [g EXCEPT !.player = jump(@)]

\* onJumpIntent()
onJumpIntent(g) ==
    LET g1 == start(g)
    IN  IF ~g1.running THEN g1 ELSE [g1 EXCEPT !.player = jump(g1.player)]

\* the keys of the two branches of the keydown handler
JumpKeys == {" ", "ArrowUp", "w", "W"}
RestartKeys == {"r", "R"}

\* the state after the keydown handler for key k
keydown(g, k, f, cssH) ==
    LET g1 == IF k \in JumpKeys THEN onJumpIntent(g) ELSE g
    IN  IF k \in RestartKeys THEN restart(g1, f, cssH) ELSE g1

\* the pointerdown handler without the first-tap branch
pointerdownJumps(g, f, cssH) ==
    IF ~g.running THEN restart(g, f, cssH) ELSE onJumpIntent(g)

\* the state after the pointerdown handler
pointerdown(g, f, cssH) ==
    IF ~g.started THEN [g EXCEPT !.started = TRUE]
    ELSE IF ~g.running THEN restart(g, f, cssH)
    ELSE onJumpIntent(g)

\* dt of loop(now) without the lower clamp
clampDtNoFloor(now, lst) == Min(MaxDt, now - lst)

\* the clamp with its ceiling at 0.33 s instead of 0.033 s
clampDtTenfold(now, lst) == Min(10 * MaxDt, Max(0, now - lst))

\* the resize handler also landing the player
replacePlayerLanded(p, cssH) ==
    [p EXCEPT !.y = groundY(cssH) - p.h, !.vy = 0, !.onGround = TRUE]

\* the resize handler's assignment: re-place player on ground
replacePlayer(p, cssH) == [p EXCEPT !.y = groundY(cssH) - p.h]

\* dt of loop(now)
clampDt(now, lst) == Min(MaxDt, Max(0, now - lst))

\* jumpedIn after a handler that leaves the game state g: player.jump() took
\* effect iff the handler found the player grounded and left it airborne
JumpedAfter(g) ==
    IF player.onGround /\ ~g.player.onGround THEN Phase
    ELSE IF g.player.onGround THEN "none"
    ELSE jumpedIn

KeyDownOver(keys) ==
    \E k \in keys :
        /\ SetGame(keydown(Game, k, font, lastCssH))
        /\ jumpedIn' = JumpedAfter(keydown(Game, k, font, lastCssH))
        /\ ev' = IF k \in RestartKeys THEN Event("restart")
                 ELSE IF k \in JumpKeys THEN Event("jumpKey")
                 ELSE ev
        /\ UNCHANGED <<last, lastCssH, clientWidth, font, prefersReducedMotion, frames,
                       rectA, rectB, rectHit>>

KeyDown == KeyDownOver(Keys)

PointerDown ==
    /\ SetGame(pointerdown(Game, font, lastCssH))
    /\ jumpedIn' = JumpedAfter(pointerdown(Game, font, lastCssH))
    /\ ev' = Event("pointer")
    /\ UNCHANGED <<last, lastCssH, clientWidth, font, prefersReducedMotion, frames,
                       rectA, rectB, rectHit>>

RestartClick ==
    /\ SetGame(restart(Game, font, lastCssH))
    /\ jumpedIn' = JumpedAfter(restart(Game, font, lastCssH))
    /\ ev' = Event("restart")
    /\ UNCHANGED <<last, lastCssH, clientWidth, font, prefersReducedMotion, frames,
                       rectA, rectB, rectHit>>

VisibilityChange ==
    \E d \in VisibilityDeltas :
        /\ last + d <= MaxNow
        /\ last' = last + d
        /\ ev' = Event("visibility")
        /\ UNCHANGED <<obstacles, sparks, running, started, score, best, speed,
                       spawnTimer, player, stored, lastCssH, clientWidth, font,
                       prefersReducedMotion, frames, jumpedIn,
                       rectA, rectB, rectHit>>

Resize ==
    \E cw \in Widths :
        /\ clientWidth' = cw
        /\ lastCssH' = fitCanvas(cw)
        /\ ev' = Event("resize")
        /\ player' = replacePlayer(player, fitCanvas(cw))
        /\ UNCHANGED <<obstacles, sparks, running, started, score, best, speed,
                       spawnTimer, stored, last, font, prefersReducedMotion, frames, jumpedIn,
                       rectA, rectB, rectHit>>

\* loop(now): the draws and environment answers are quantified only where
\* update() reads them: the spawn draws when a spawn is due, the spark
\* seed and the outcome of localStorage.setItem in the collision branch
LoopOver(deltas, draws, maxFrames) ==
    \E d \in deltas :
        LET now == last + d
            dt  == clampDt(now, last)
            due == running /\ started /\ spawnDue(spawnTimer - 450 * dt)
            dr0 == CHOOSE dr \in draws : TRUE
        IN  \E dr \in IF due THEN draws ELSE {dr0} :
            LET in0 == [draw |-> dr, seed |-> 0, writeFails |-> FALSE]
                u0  == IF running THEN update(Game, dt, font, clientWidth, lastCssH, in0)
                       ELSE [g |-> Game, spawned |-> 0, hit |-> FALSE]
            IN  \E sd \in IF u0.hit /\ ~prefersReducedMotion THEN Seeds ELSE {0},
                   wf \in IF u0.hit /\ u0.g.best # best THEN BOOLEAN ELSE {FALSE} :
                LET in == [in0 EXCEPT !.seed = sd, !.writeFails = wf]
                    u  == IF running
                          THEN update(Game, dt, font, clientWidth, lastCssH, in)
                          ELSE u0
                IN  /\ frames < maxFrames
                    /\ frames' = frames + 1
                    /\ last' = now
                    /\ SetGame(u.g)
                    /\ ev' = Event("frame")
                    /\ jumpedIn' = "none"
                    /\ UNCHANGED <<lastCssH, clientWidth, font, prefersReducedMotion,
                                   rectA, rectB, rectHit>>

Loop == LoopOver(FrameDeltas, Draws, MaxFrames)

\* the state after the script has run: state declarations, the best load,
\* fitCanvas() and reset(), for the pages described by the argument sets
InitOver(widths, fonts, items, throwing, motion) ==
    \E cw \in widths, f \in fonts, item \in items, throws \in throwing,
       reduced \in motion :
        LET g0 == [obstacles |-> <<>>, sparks |-> <<>>, running |-> TRUE,
                   started |-> FALSE, score |-> 0, best |-> LoadBest(item, throws),
                   speed |-> BaseSpeed * 500, spawnTimer |-> 0,
                   player |-> PlayerLiteral, stored |-> item]
            g  == reset(g0, f, fitCanvas(cw))
        IN  /\ clientWidth = cw
            /\ lastCssH = fitCanvas(cw)
            /\ font = f
            /\ prefersReducedMotion = reduced
            /\ obstacles = g.obstacles
            /\ sparks = g.sparks
            /\ running = g.running
            /\ started = g.started
            /\ score = g.score
            /\ best = g.best
            /\ speed = g.speed
            /\ spawnTimer = g.spawnTimer
            /\ player = g.player
            /\ stored = g.stored
            /\ last = 0
            /\ frames = 0
            /\ ev = [op |-> "init", phase |-> "NOT_STARTED"]
            /\ jumpedIn = "none"
            /\ rectA = NoRect /\ rectB = NoRect /\ rectHit = FALSE

Init == InitOver(Widths, Fonts, StoredItems, BOOLEAN, BOOLEAN)

Next ==
    \/ Loop
    \/ KeyDown
    \/ PointerDown
    \/ RestartClick
    \/ VisibilityChange
    \/ Resize

Spec == Init /\ [][Next]_vars

----------------------------------------------------------------------------
(* One long session on one page: a 640 px wide viewport with the fallback *)
(* glyph metrics, frames 33 ms apart, single 18 px obstacles at the       *)
(* shortest pacing, and the jump key pressed at any moment. Long enough   *)
(* for jumps to land, for several obstacles to be alive at once, for      *)
(* obstacles to leave on the left and for speed to reach its cap.         *)

\* frames of the long session
MaxLongFrames == 150

LongWidths == {640}

LongFonts == { [w |-> 0, asc |-> -1, desc |-> -1] }

LongStoredItems == { [finite |-> TRUE, v |-> 2] }

LongDeltas == {MaxDt}

LongDraws == { [count |-> 1, base |-> 20, gap |-> 2, jit |-> <<-5, 0, 0>>, pace |-> 0] }

LongKeys == {" "}

InitLong == InitOver(LongWidths, LongFonts, LongStoredItems, {FALSE}, {FALSE})

\* the session is started by the first key press, before the first frame
LongLoop == started /\ LoopOver(LongDeltas, LongDraws, MaxLongFrames)

LongKeyDown == KeyDownOver(LongKeys)

NextLong ==
    \/ LongLoop
    \/ LongKeyDown

SpecLong == InitLong /\ [][NextLong]_vars

----------------------------------------------------------------------------
(* Sessions of one jump on a 96 px wide viewport: frames 33 ms apart, the  *)
(* jump key, the restart key and pointer-downs at any moment. The first    *)
(* obstacle reaches the player on the fourth tick, so a session either     *)
(* jumps it and lands 24 ticks after the jump, or is lost and restarted.   *)

\* frames of these sessions
MaxJumpFrames == 40

JumpWidths == {96}

JumpSessionKeys == {" ", "r"}

InitJump == InitOver(JumpWidths, LongFonts, LongStoredItems, {FALSE}, {FALSE})

JumpLoop == LoopOver(LongDeltas, LongDraws, MaxJumpFrames)

JumpKeyDown == KeyDownOver(JumpSessionKeys)

NextJump ==
    \/ JumpLoop
    \/ JumpKeyDown
    \/ PointerDown

SpecJump == InitJump /\ [][NextJump]_vars

----------------------------------------------------------------------------
(* rectsOverlap called directly on small rectangles of positive size *)

\* largest x and y of a rectangle's corner
MaxCoord == 2

\* largest width and height of a rectangle
MaxSize == 2

Rects == [x : 0..MaxCoord, y : 0..MaxCoord, w : 1..MaxSize, h : 1..MaxSize]

\* one call per behaviour: the result depends on the arguments only
CallRectsOverlap ==
    \E a \in Rects, b \in Rects :
        /\ rectA = NoRect
        /\ rectA' = a
        /\ rectB' = b
        /\ rectHit' = rectsOverlap(a, b)
        /\ UNCHANGED <<obstacles, sparks, running, started, score, best, speed,
                       spawnTimer, last, player, lastCssH, clientWidth, font,
                       prefersReducedMotion, stored, frames, ev, jumpedIn>>

SpecRects == InitLong /\ [][CallRectsOverlap]_vars

----------------------------------------------------------------------------
(* Vocabulary of the properties *)

\* the game state after the step
GameNext == [obstacles |-> obstacles', sparks |-> sparks', running |-> running',
             started |-> started', score |-> score', best |-> best',
             speed |-> speed', spawnTimer |-> spawnTimer', player |-> player',
             stored |-> stored']

\* the step is a call of loop(), of the keydown handler with a jump key,
\* of restart() by key or button, of the pointerdown handler
IsFrame == ev'.op = "frame"
IsJumpKey == ev'.op = "jumpKey"
IsRestart == ev'.op = "restart"
IsPointer == ev'.op = "pointer"

\* the step is a frame in which update() runs past its not-started return
IsTick == IsFrame /\ Phase = "RUNNING"

\* dt of the frame taken by the step, ms
StepDt == clampDt(last', last)

\* open interiors of the player's box p and the obstacle o intersect
StrictlyOverlaps(p, o) ==
    /\ PlayerX * PX < o.x + o.w
    /\ o.x < PlayerX * PX + p.w
    /\ p.y < o.y + o.h
    /\ o.y < p.y + p.h

AnyOverlap(p, obs) == \E i \in 1..Len(obs) : StrictlyOverlaps(p, obs[i])

\* the player just jumped: the impulse as velocity, not grounded
HasImpulse(p) == p.vy = -(JumpImpulse * 5) /\ ~p.onGround

----------------------------------------------------------------------------
(* C1: best never decreases in any step, and in the step in which a session *)
(* ends by collision (running becomes false) best >= floor(score) after it. *)
C1_BestMonotone ==
    [][ /\ best' >= best
        /\ (running /\ ~running' => best' >= Floor(score')) ]_vars

\* a second session has ended by collision below the record of the first
C1_Witness ==
    /\ ~running
    /\ ev = [op |-> "frame", phase |-> "RUNNING"]
    /\ stored = [finite |-> TRUE, v |-> 1]
    /\ best = 1
    /\ Floor(score) = 0

(* C2: a restart-intent (R key or button) in any phase leaves the game      *)
(* RUNNING with no obstacles, no particles, score 0, speed 260, spawn timer *)
(* 0 and the player grounded with vy = 0 at groundY - player.h; best is     *)
(* unchanged.                                                               *)
C2_RestartResets ==
    [][ IsRestart =>
          /\ started' /\ running'
          /\ obstacles' = <<>>
          /\ sparks' = <<>>
          /\ score' = 0
          /\ speed' = BaseSpeed * 500
          /\ spawnTimer' = 0
          /\ player'.onGround
          /\ player'.vy = 0
          /\ player'.y = groundY(lastCssH) - player'.h
          /\ best' = best ]_vars

\* a restart was issued in GAME_OVER, after a session that set a record
C2_Witness ==
    /\ ev = [op |-> "restart", phase |-> "GAME_OVER"]
    /\ started /\ running
    /\ obstacles = <<>> /\ sparks = <<>> /\ score = 0
    /\ best = 1

C4_GameOverFrozen ==
    [][ Phase = "GAME_OVER" =>
          /\ (IsFrame \/ IsJumpKey => GameNext = Game)
          /\ (Phase' # "GAME_OVER" =>
                /\ IsRestart \/ IsPointer
                /\ Phase' = "RUNNING"
                /\ obstacles' = <<>> /\ sparks' = <<>>
                /\ score' = 0 /\ speed' = BaseSpeed * 500 /\ spawnTimer' = 0
                /\ player'.onGround /\ player'.vy = 0
                /\ best' = best) ]_vars

\* a jump key was pressed in GAME_OVER and the game is still over
C4_Witness ==
    /\ ev = [op |-> "jumpKey", phase |-> "GAME_OVER"]
    /\ Phase = "GAME_OVER"
    /\ player.onGround
    /\ Len(obstacles) = 1

(* C5: a jump-intent (jump key, or pointer-down in RUNNING) acts only on a  *)
(* grounded player: grounded and running, it sets vy = -460 and grounded =  *)
(* false and leaves y; not grounded, it leaves vy, y and grounded unchanged.*)
C5_JumpOnlyGrounded ==
    [][ IsJumpKey \/ (IsPointer /\ Phase = "RUNNING") =>
          IF player.onGround
          THEN running => HasImpulse(player') /\ player'.y = player.y
          ELSE player' = player ]_vars

\* a jump key arrived while the player was already in the air
C5_Witness ==
    /\ ev = [op |-> "jumpKey", phase |-> "RUNNING"]
    /\ ~player.onGround
    /\ player.vy > -(JumpImpulse * 5)
    /\ player.y + player.h < groundY(lastCssH)

(* C6: a jump key in NOT_STARTED moves the game to RUNNING and performs the *)
(* jump in the same event (vy = -460, grounded = false); the player is      *)
(* grounded whenever the game is NOT_STARTED.                               *)
C6_FirstKeyStartsAndJumps ==
    [][ /\ (Phase = "NOT_STARTED" => player.onGround)
        /\ (IsJumpKey /\ Phase = "NOT_STARTED" =>
              Phase' = "RUNNING" /\ HasImpulse(player')) ]_vars

\* the first input was a jump key
C6_Witness ==
    /\ ev = [op |-> "jumpKey", phase |-> "NOT_STARTED"]
    /\ Phase = "RUNNING"
    /\ HasImpulse(player)

C8_DtClamped ==
    [][ IsTick =>
          /\ score' - score = 3 * StepDt
          /\ 0 <= score' - score
          /\ 30 * (score' - score) <= 3 * 1000 ]_vars

\* a running frame came 5 s after the reference and advanced the score by
\* 33 ms worth, and another frame carried an earlier timestamp
C8_Witness ==
    /\ ev = [op |-> "frame", phase |-> "RUNNING"]
    /\ last = 5000 - 5
    /\ score = 3 * MaxDt

(* C9: a tick in RUNNING appends exactly one obstacle if the spawn timer    *)
(* less dt is <= 0 and none otherwise, never more than one, and after a     *)
(* spawn the timer is strictly positive.                                    *)
C9_OneSpawnPerTick ==
    [][ IsTick =>
          LET due      == spawnTimer - 450 * StepDt <= 0
              appended == Len(obstacles')
                          - Len(moveObstacles(obstacles, speed', StepDt))
          IN  /\ appended = (IF due THEN 1 ELSE 0)
              /\ due => spawnTimer' > 0
              /\ ~due => spawnTimer' = spawnTimer - 450 * StepDt ]_vars

\* two ticks of one session: the first spawned, the second did not
C9_Witness ==
    /\ ev = [op |-> "frame", phase |-> "RUNNING"]
    /\ running
    /\ score = 3 * (16 + MaxDt)
    /\ Len(obstacles) = 1
    /\ spawnTimer > 0

(* C10: every tick in RUNNING, the one that detects the collision included, *)
(* adds exactly dt x 60 to score; frames in NOT_STARTED or GAME_OVER leave  *)
(* score unchanged; score decreases only in a restart, which sets it to 0.  *)
C10_ScoreAccrual ==
    [][ /\ (IsTick => score' = score + 3 * StepDt)
        /\ (IsFrame /\ Phase # "RUNNING" => score' = score)
        /\ (score' < score =>
              /\ score' = 0
              /\ IsRestart \/ (IsPointer /\ Phase = "GAME_OVER")) ]_vars

\* the tick that detected the collision also counted its 33 ms
C10_Witness ==
    /\ ev = [op |-> "frame", phase |-> "RUNNING"]
    /\ ~running
    /\ frames = 1
    /\ score = 3 * MaxDt

(* C11 as stated: after every step, world speed equals                      *)
(* min(520, 260 + 0.9 x the current score), lies in [260, 520] and a tick   *)
(* never lowers it.                                                         *)
C11_SpeedOfCurrentScore ==
    [][ /\ speed' = Min(MaxSpeed * 500, BaseSpeed * 500 + 9 * score')
        /\ speed' >= BaseSpeed * 500 /\ speed' <= MaxSpeed * 500
        /\ (IsTick => speed' >= speed) ]_vars

(* C11, amended: a tick sets world speed to min(520, 260 + 0.9 x the score  *)
(* at the start of that tick), before the tick adds to the score; no other  *)
(* step changes speed except a reset, which sets it to 260; speed always    *)
(* lies in [260, 520] and a tick never lowers it.                           *)
C11_SpeedOfTickStartScore ==
    [][ /\ (IsTick => speed' = Min(MaxSpeed * 500, BaseSpeed * 500 + 9 * score))
        /\ (~IsTick => speed' = speed \/ (speed' = BaseSpeed * 500 /\ score' = 0))
        /\ speed' >= BaseSpeed * 500 /\ speed' <= MaxSpeed * 500
        /\ (IsTick => speed' >= speed) ]_vars

\* a tick of a running session whose uncapped speed would exceed the cap
C11_Witness ==
    /\ ev = [op |-> "frame", phase |-> "RUNNING"]
    /\ running
    /\ speed = MaxSpeed * 500
    /\ BaseSpeed * 500 + 9 * score > MaxSpeed * 500 + 9 * 3 * MaxDt

(* C12: on every frame with dt > 0 that finds particles in the list, each   *)
(* particle that stays in the list has a smaller radius than before and     *)
(* none with radius <= 0.25 stays, so the list keeps shrinking until it is  *)
(* empty.                                                                   *)
C12_SparksDecay ==
    [][ IsFrame /\ StepDt > 0 /\ sparks # <<>> =>
          /\ Len(sparks') <= Len(sparks)
          /\ \A i \in 1..Len(sparks') :
                /\ sparks'[i].r > 2500
                /\ \E j \in i..Len(sparks) : sparks'[i].r < sparks[j].r ]_vars

\* the game state with the stored item left out of the comparison
Forget(g) == [g EXCEPT !.stored = [finite |-> FALSE, v |-> 0]]

\* the game state as it would be had the last write of best succeeded
Written(g) == [g EXCEPT !.stored = [finite |-> TRUE, v |-> g.best]]

(* C13: a failed or non-finite read at startup leaves best at 0; a losing   *)
(* tick whose write fails has still ended the session, added the particles  *)
(* and kept the new best in memory; and from every reachable state each     *)
(* key, pointer-down and tick gives the same game state, the stored item    *)
(* apart, as it gives from the state in which the write of best succeeded.  *)
C13_PersistenceFailuresSwallowed ==
    /\ (ev.op = "init" /\ ~stored.finite => best = 0)
    /\ (ev.op = "init" => best = 0 \/ best = stored.v)
    /\ (ev = [op |-> "frame", phase |-> "RUNNING"] /\ ~running =>
          /\ best >= Floor(score)
          /\ prefersReducedMotion \/ Len(sparks) = BurstCount)
    /\ Game # Written(Game) =>
          /\ \A k \in Keys :
                Forget(keydown(Game, k, font, lastCssH))
                  = Forget(keydown(Written(Game), k, font, lastCssH))
          /\ Forget(pointerdown(Game, font, lastCssH))
               = Forget(pointerdown(Written(Game), font, lastCssH))
          /\ LET in == [draw |-> CHOOSE dr \in Draws : TRUE, seed |-> 0,
                        writeFails |-> TRUE]
             IN  Forget(update(Game, MaxDt, font, clientWidth, lastCssH, in).g)
                   = Forget(update(Written(Game), MaxDt, font, clientWidth, lastCssH,
                                   [in EXCEPT !.writeFails = FALSE]).g)

\* a restart after a losing tick whose write of the new best failed
C13_Witness ==
    /\ ev = [op |-> "restart", phase |-> "GAME_OVER"]
    /\ best >= 1
    /\ ~stored.finite
    /\ started /\ running /\ score = 0

\* whether the open intervals (lo1, hi1) and (lo2, hi2) have a common point
OpenIntervalsMeet(lo1, hi1, lo2, hi2) == Max(lo1, lo2) < Min(hi1, hi2)

(* C14: for rectangles of positive size, rectsOverlap(a, b) is true exactly *)
(* when the open interiors intersect on both axes; rectangles sharing only  *)
(* an edge or a corner do not overlap; and rectsOverlap(b, a) agrees.       *)
C14_StrictOverlap ==
    rectA # NoRect =>
        /\ rectHit = ( /\ OpenIntervalsMeet(rectA.x, rectA.x + rectA.w,
                                            rectB.x, rectB.x + rectB.w)
                       /\ OpenIntervalsMeet(rectA.y, rectA.y + rectA.h,
                                            rectB.y, rectB.y + rectB.h) )
        /\ (    \/ rectA.x + rectA.w = rectB.x \/ rectB.x + rectB.w = rectA.x
                \/ rectA.y + rectA.h = rectB.y \/ rectB.y + rectB.h = rectA.y
             => ~rectHit )
        /\ rectHit = rectsOverlap(rectB, rectA)

\* two rectangles sharing an edge, overlapping in y, reported as apart
C14_Witness ==
    /\ rectA # NoRect
    /\ rectA.x + rectA.w = rectB.x
    /\ rectA.y = rectB.y
    /\ ~rectHit

\* o is entirely right of the player's box p
RightOf(p, o) == o.x >= PlayerX * PX + p.w

\* o is entirely left of the player's box p
LeftOf(p, o) == o.x + o.w <= PlayerX * PX

\* o2 is the obstacle o1 after moving left (or staying)
SameObstacle(o1, o2) ==
    o2.glyphs = o1.glyphs /\ o2.w = o1.w /\ o2.h = o1.h /\ o2.y = o1.y /\ o2.x <= o1.x

(* C15: no tick moves an obstacle from entirely right of the player's box   *)
(* to entirely left of it. A tick drops the first k obstacles of the list,  *)
(* moves the others and may append spawned ones: no dropped obstacle was    *)
(* entirely right before the tick, no kept obstacle that was entirely right *)
(* is entirely left after it, and no spawned obstacle is entirely left.     *)
C15_NoTunnelling ==
    [][ IsTick =>
          \E k \in 0..Len(obstacles) :
             /\ Len(obstacles') >= Len(obstacles) - k
             /\ \A i \in 1..k : ~RightOf(player, obstacles[i])
             /\ \A i \in (k + 1)..Len(obstacles) :
                   /\ SameObstacle(obstacles[i], obstacles'[i - k])
                   /\ RightOf(player, obstacles[i]) => ~LeftOf(player', obstacles'[i - k])
             /\ \A j \in (Len(obstacles) - k + 1)..Len(obstacles') :
                   ~LeftOf(player', obstacles'[j]) ]_vars

\* after a 33 ms tick (a 5 s stall, clamped) that began with an obstacle
\* entirely right of the player, that obstacle is inside the player's extent
C15_Witness ==
    /\ ev = [op |-> "frame", phase |-> "RUNNING"]
    /\ frames = 2
    /\ last >= 5000
    /\ clientWidth = 96
    /\ Len(obstacles) >= 1
    /\ obstacles[1].x < PlayerX * PX + player.w
    /\ obstacles[1].x + 33 * speed >= PlayerX * PX + player.w
    /\ ~LeftOf(player, obstacles[1])

\* the player's position, velocity and grounded flag change in this step
PlayerMoves ==
    player'.y # player.y \/ player'.vy # player.vy \/ player'.onGround # player.onGround

\* the steps C16 lets change the player: frames reaching update(), the jump
\* command and the resets
MayMovePlayer ==
    \/ IsFrame /\ Phase # "GAME_OVER"
    \/ IsJumpKey
    \/ IsRestart
    \/ IsPointer /\ Phase # "NOT_STARTED"

(* C16 as stated: the player's y, vy and grounded flag change only in       *)
(* simulation steps, jump commands and resets; a resize, a visibility       *)
(* change, a pointer-down in NOT_STARTED and a frame in GAME_OVER leave     *)
(* them unchanged.                                                          *)
C16_PlayerMovedOnlyBySimulation ==
    [][ /\ (PlayerMoves => MayMovePlayer)
        /\ (   \/ ev'.op \in {"resize", "visibility"}
               \/ IsPointer /\ Phase = "NOT_STARTED"
               \/ IsFrame /\ Phase = "GAME_OVER"
            => ~PlayerMoves) ]_vars

(* C16, amended: the player's y, vy and grounded flag change only in        *)
(* simulation steps, jump commands, resets and resizes; a resize leaves vy  *)
(* and the grounded flag unchanged and sets y to groundY - player.h of the  *)
(* new viewport, also in mid-jump; a visibility change, a pointer-down in   *)
(* NOT_STARTED and a frame in GAME_OVER leave all three unchanged.          *)
C16_ResizeReplacesPlayer ==
    [][ /\ (PlayerMoves => MayMovePlayer \/ ev'.op = "resize")
        /\ (ev'.op = "resize" =>
              /\ player'.vy = player.vy
              /\ player'.onGround = player.onGround
              /\ player'.y + player'.h = groundY(lastCssH'))
        /\ (   \/ ev'.op = "visibility"
               \/ IsPointer /\ Phase = "NOT_STARTED"
               \/ IsFrame /\ Phase = "GAME_OVER"
            => ~PlayerMoves) ]_vars

\* a resize in mid-jump: the player, still airborne and moving after a tick,
\* has been put back on the ground line
C16_Witness ==
    /\ ev = [op |-> "resize", phase |-> "RUNNING"]
    /\ ~player.onGround
    /\ player.vy # 0 /\ ~HasImpulse(player)
    /\ player.y + player.h = groundY(lastCssH)

(* C17: a tick moves every obstacle left by speed x dt and leaves its y, w, *)
(* h and glyphs unchanged; it drops exactly the obstacles whose moved       *)
(* x + w <= -30, keeps the others in their order and appends at most one    *)
(* spawned obstacle; after the tick every obstacle has x + w > -30; no      *)
(* other step changes an obstacle except a reset, which empties the list.   *)
C17_ObstaclesMoveLeft ==
    [][ /\ (IsTick =>
              \E k \in 0..Len(obstacles) :
                 /\ \A i \in 1..k :
                       obstacles[i].x - speed' * StepDt + obstacles[i].w <= -30 * PX
                 /\ Len(obstacles') - (Len(obstacles) - k) \in {0, 1}
                 /\ \A i \in (k + 1)..Len(obstacles) :
                       /\ obstacles'[i - k].x = obstacles[i].x - speed' * StepDt
                       /\ obstacles'[i - k].y = obstacles[i].y
                       /\ obstacles'[i - k].w = obstacles[i].w
                       /\ obstacles'[i - k].h = obstacles[i].h
                       /\ obstacles'[i - k].glyphs = obstacles[i].glyphs)
        /\ (~IsTick => obstacles' = obstacles \/ obstacles' = <<>>)
        /\ \A j \in 1..Len(obstacles') :
              obstacles'[j].x + obstacles'[j].w > -30 * PX ]_vars

\* the 67th tick has dropped the first obstacle of the session; the second
\* and the third are left, in their order
C17_Witness ==
    /\ ev = [op |-> "frame", phase |-> "RUNNING"]
    /\ running
    /\ frames = 67
    /\ score = 3 * MaxDt * 67
    /\ Len(obstacles) = 2
    /\ obstacles[1].x < obstacles[2].x
    /\ obstacles[1].x - 2 * (obstacles[2].x - obstacles[1].x) < -30 * PX

(* C18: the tick that follows a jump command accepted in RUNNING leaves the *)
(* player airborne, whatever dt in [0, 0.033] the loop supplies: not        *)
(* grounded and with player.y + player.h < groundY.                         *)
C18_JumpSurvivesNextTick ==
    [][ IsTick /\ jumpedIn = "RUNNING" =>
           /\ ~player'.onGround
           /\ player'.y + player'.h < groundY(lastCssH) ]_vars

(* C19: every state has started or running set, so the flags are in one of  *)
(* the three combinations NOT_STARTED, RUNNING, GAME_OVER; running becomes  *)
(* false only in a tick of a started session that ends with the player      *)
(* overlapping an obstacle; and no step clears started: reset() runs only   *)
(* at startup and inside restart(), which sets started again.               *)
C19_ThreePhases ==
    [][ /\ (started \/ running) /\ (started' \/ running')
        /\ (running /\ ~running' => IsTick /\ AnyOverlap(player', obstacles'))
        /\ (started => started')
        /\ (~started /\ started' =>
              IsJumpKey \/ IsPointer \/ IsRestart) ]_vars

\* GAME_OVER entered by the collision of a tick
C19_Witness ==
    /\ ev = [op |-> "frame", phase |-> "RUNNING"]
    /\ started /\ ~running
    /\ AnyOverlap(player, obstacles)
    /\ frames = 2

(* C20: in every state the player is on or above the ground line,           *)
(* player.y + player.h <= groundY, and a grounded player has vy = 0 and     *)
(* stands exactly on it, player.y + player.h = groundY.                     *)
C20_PlayerOnOrAboveGround ==
    /\ player.y + player.h <= groundY(lastCssH)
    /\ player.onGround =>
          player.vy = 0 /\ player.y + player.h = groundY(lastCssH)

\* the player has landed from a jump over the first obstacle, in a session
\* restarted after a lost one
C20_Witness ==
    /\ ev = [op |-> "frame", phase |-> "RUNNING"]
    /\ running
    /\ player.onGround
    /\ score >= 3 * MaxDt * 24
    /\ best > 2

====
